---- MODULE Spec2Model ----
(***************************************************************************)
(* Model of the execution dispatcher of the repository:                    *)
(*   src/src/executions.ts  runTestCase, killRunning, runningBinaries      *)
(*   src/src/apiClient.ts   mapLanguageToApi, shouldUseCloudApi,           *)
(*                          compileAndRunViaApi                            *)
(* One JavaScript event loop runs the handlers below one at a time; child  *)
(* processes, the file system and the HTTP endpoint are the environment.   *)
(* Strings are modelled as sequences of one-character strings, optional    *)
(* values (null / undefined) as sequences of length 0 or 1.                *)
(***************************************************************************)
EXTENDS Integers, Sequences, FiniteSets, TLC

\* ---------------------------------------------------------------- bounds
\* number of runTestCase invocations in one run of the model
MaxCalls == 2
\* number of chunks the child processes of one run write, all streams together
MaxChunks == 1

Calls == 1..MaxCalls

\* ------------------------------------------------------- values and inputs
None == <<>>
Some(x) == <<x>>

Range(s) == {s[k] : k \in DOMAIN s}

\* the whitespace characters String.prototype.trim removes (those used here)
WhiteSpace == {" "}

RECURSIVE TrimStart(_)
TrimStart(s) ==
    IF s # <<>> /\ Head(s) \in WhiteSpace THEN TrimStart(Tail(s)) ELSE s

RECURSIVE TrimEnd(_)
TrimEnd(s) ==
    IF s # <<>> /\ s[Len(s)] \in WhiteSpace
    THEN TrimEnd(SubSeq(s, 1, Len(s) - 1))
    ELSE s

\* String.prototype.trim
Trim(s) == TrimEnd(TrimStart(s))

\* the values the endpoint setting is drawn from: undefined, " ", "u"
UrlSettings == {None, Some(<<" ">>), Some(<<"u">>)}

\* the language names the calls are drawn from
LangInputs == {"cpp", "ruby"}

\* the input payloads the calls are drawn from: "", " ", "5"
InputPayloads == {<<>>, <<" ">>, <<"5">>}

\* paths are sequences of pieces; a piece that starts with a dot is one of these
DotPieces ==
    {".bin", "._bin", ".class", ".java", ".cpp", ".cc", ".cxx", ".c", ".rs",
     ".go", ".cs", ".hs", ".cj", ".py", ".rb", ".js"}

\* the executable references the calls are drawn from: "sol.bin"
BinInputs == {<<"sol", ".bin">>}

\* the source files that may exist on disk when a call is made
DiskInputs == {{}, {<<"sol", ".cpp">>}}

\* the saved file of the active editor, None when there is none
EditorInputs == {None, Some(<<"sol", ".cpp">>)}

\* the names Date.now() and Math.random() may give a temp input file
TempNames == {"t1", "t2"}

\* what fetch may settle with: a response, or a rejection.  cause is what
\* happened on the network, message is error.message of the rejection: the
\* global fetch of Node rejects with TypeError "fetch failed" and keeps the
\* system error in error.cause; other fetch implementations put the system
\* error code in the message
FetchOutcomes ==
    {[kind |-> "reject", cause |-> "refused", message |-> <<"fetch failed">>],
     [kind |-> "reject", cause |-> "refused",
      message |-> <<"connect ", "ECONNREFUSED", " 127.0.0.1:80">>],
     [kind |-> "response", status |-> 200],
     [kind |-> "response", status |-> 404],
     [kind |-> "response", status |-> 500]}

\* what response.text() may settle with
TextOutcomes ==
    {[kind |-> "text", text |-> <<"internal error">>], [kind |-> "fail"]}

\* what response.json() may settle with
JsonOutcomes ==
    {[kind |-> "json", success |-> TRUE, output |-> Some(<<"42">>), error |-> None],
     [kind |-> "json", success |-> FALSE, output |-> Some(<<"4">>),
      error |-> Some(<<"Compilation failed">>)],
     [kind |-> "json", success |-> FALSE, output |-> None, error |-> None],
     [kind |-> "fail"]}

\* how a child process ends by itself: <<exit code, signal>>
OwnExits == {<<Some(0), None>>}

Streams == {"stdout", "stderr"}

\* the Run record runTestCase starts from
EmptyRun ==
    [stdout |-> <<>>, stderr |-> <<>>, code |-> None, signal |-> None,
     timeOut |-> FALSE]

NoProc == [st |-> "none", status |-> <<None, None>>, exitSeen |-> FALSE]

VARIABLES
    apiUrl,           \* the cloudCompilerApiUrl setting
    phase,            \* per call: "idle", "running", "fetching", "reading",
                      \*   "done" (resolved), "rejected"
    route,            \* per call: "none", "local", "remote" (runTestCase),
                      \*   "direct" (compileAndRunViaApi called by another)
    lastCall,         \* the call made last and the language name it was given
    result,           \* per call: the Run object the call builds and returns
    returned,         \* per call: the Run value its promise resolved with
    killer,           \* per call: the timeout timer
    proc,             \* per call: the child process (operating-system side)
    pipe,             \* per call, per stream: chunks written, not yet read
    wrote,            \* per call, per stream: number of chunks written
    runningBinaries,  \* the in-flight registry
    timerSaw,         \* per call: what the timer callback found ("live"/"dead")
    files,            \* the temp input files that exist in os.tmpdir()
    tempPath,         \* per call: inputFilePath of compileAndRunViaApi
    pending,          \* per call: the response whose body is being read
    requests,         \* per call: number of fetch requests sent
    received,         \* per call: what the remote call got back, or what it threw
    notes,            \* per call: the judge-view notifications it emitted
    shown,            \* per call: the vscode.window messages it showed
    stdin,            \* per call: the calls made on the child's stdin
    language,         \* the Language object passed to the local run made last
    platform,         \* what os.platform() returns
    srcPath,          \* the source path derived from the arguments in lastCall
    className,        \* the class name a java launch of lastCall.bin passes
    qphase,           \* per quickRun call: "none", "refused", "awaiting",
                      \*   "shown" (cleanup timer set), "echoed", "cleaned"
    qdir,             \* per quickRun call: fileDir, the directory of the file
    outFile,          \* per directory: the call whose output is in
                      \*   .cph_output_temp.txt, None when there is no such file
    cleanups          \* the pending cleanup timers, in the order they were set

vars ==
    <<apiUrl, phase, route, lastCall, result, returned, killer, proc, pipe, wrote,
      runningBinaries, timerSaw, files, tempPath, pending, requests,
      received, notes, shown, stdin, language, platform, srcPath, className,
      qphase, qdir, outFile, cleanups>>

\* what the remote route works on
remoteVars == <<files, tempPath, pending, requests, received, notes>>

\* what the child processes work on
osVars == <<pipe, wrote>>

\* what runTestCase reads and never writes
\* what quickRun works on
quickVars == <<qphase, qdir, outFile, cleanups>>

idleVars == <<platform, srcPath, className, quickVars>>

\* what the calls of runTestCase work on
runVars ==
    <<apiUrl, phase, route, lastCall, result, returned, killer, proc,
      runningBinaries, timerSaw, shown, osVars, remoteVars, stdin, language,
      platform>>

\* what only the start of a local run works on
restVars == <<stdin, language, idleVars>>

\* ------------------------------------------------------------ apiClient.ts

\* mapLanguageToApi: the remote tag of a language name, None for null
mapLanguageToApi(extLanguage) ==
    CASE extLanguage = "c" -> Some("c")
      [] extLanguage \in {"cpp", "cc", "cxx"} -> Some("cpp")
      [] extLanguage = "python" -> Some("python")
      [] extLanguage = "java" -> Some("java")
      [] extLanguage = "js" -> Some("javascript")
      [] extLanguage = "rust" -> Some("rust")
      [] extLanguage = "go" -> Some("go")
      [] extLanguage = "csharp" -> Some("csharp")
      [] extLanguage \in {"ruby", "hs", "cangjie"} -> None
      [] OTHER -> None

\* !apiUrl || apiUrl.trim() === ''
UrlBlank(url) == url = None \/ Trim(url[1]) = <<>>

\* shouldUseCloudApi without the trim: a whitespace-only setting counts as set
ShouldUseCloudApiNoTrim(url, languageName) ==
    IF url = None \/ url[1] = <<>>
    THEN FALSE
    ELSE mapLanguageToApi(languageName) # None

\* shouldUseCloudApi
shouldUseCloudApi(url, languageName) ==
    IF UrlBlank(url) THEN FALSE ELSE mapLanguageToApi(languageName) # None

\* input && input.trim() !== ''
HasInput(input) == input # <<>> /\ Trim(input) # <<>>

\* a Run of the remote route: signal null, timeOut false
RemoteRun(out, err, code) ==
    [stdout |-> out, stderr |-> err, code |-> Some(code), signal |-> None,
     timeOut |-> FALSE]

\* errorMessage.includes(word)
Includes(message, word) == word \in Range(message)

\* the catch block's classification of the error message
Classify(message, url) ==
    IF Includes(message, "ECONNREFUSED") \/ Includes(message, "ENOTFOUND")
    THEN <<"Cannot connect to cloud compiler API at ">> \o url \o
         <<". Please check if the server is running and the URL is correct.">>
    ELSE IF Includes(message, "ETIMEDOUT") \/ Includes(message, "timeout")
    THEN <<"Request to cloud compiler API timed out. Please try again.">>
    ELSE message

\* the catch block's Run
CatchRun(message, url) == RemoteRun(<<>>, Classify(message, url), 1)

\* a finally block that leaves the temp input file behind
FinallyNoUnlink(fs, path) == fs

\* the finally block: unlink the temp input file when it exists
FinallyCleanup(fs, path) ==
    IF path # None /\ path[1] \in fs THEN fs \ {path[1]} ELSE fs

\* 'compiling-stop' sent after the await instead of in a finally block
AfterFetchNoFinally(ns, rejected) ==
    IF rejected THEN ns ELSE Append(ns, "compiling-stop")

\* the finally block around fetch: 'compiling-stop', response or exception
AfterFetch(ns, rejected) == Append(ns, "compiling-stop")

\* response.ok
ResponseOk(status) == status >= 200 /\ status <= 299

\* a Run for a response that is not ok with the generic failure code
StatusRunCodeOne(status, body) ==
    RemoteRun(<<>>,
              <<"API request failed with status ", ToString(status), ": ">> \o
              (IF body.kind = "text" THEN body.text ELSE <<"Unknown error">>),
              1)

\* the Run for a response that is not ok
StatusRun(status, body) ==
    RemoteRun(<<>>,
              <<"API request failed with status ", ToString(status), ": ">> \o
              (IF body.kind = "text" THEN body.text ELSE <<"Unknown error">>),
              status)

\* x || fallback, for an optional string
OrElse(x, fallback) == IF x = None \/ x[1] = <<>> THEN fallback ELSE x[1]

\* a Run for a parsed body that takes the error field as it comes
JsonRunNoFallback(body) ==
    IF body.success
    THEN RemoteRun(OrElse(body.output, <<>>), <<>>, 0)
    ELSE RemoteRun(OrElse(body.output, <<>>), OrElse(body.error, <<>>), 1)

\* the Run for a parsed body
JsonRun(body) ==
    IF body.success
    THEN RemoteRun(OrElse(body.output, <<>>), <<>>, 0)
    ELSE RemoteRun(OrElse(body.output, <<>>),
                   OrElse(body.error, <<"Unknown error">>), 1)


\* ----------------------------------------------------------- executions.ts

\* language.skipCompile: true for the interpreted languages
SkipCompile(l) == l \in {"python", "js", "ruby"}

\* path.extname
ExtName(path) ==
    IF Len(path) > 1 /\ path[Len(path)] \in DotPieces
    THEN path[Len(path)]
    ELSE ""

Front(path) == SubSeq(path, 1, Len(path) - 1)

\* binPath.replace(/\.(bin|_bin)$/, '')
StripBinSuffix(path) ==
    IF path # <<>> /\ path[Len(path)] \in {".bin", "._bin"}
    THEN Front(path)
    ELSE path

\* possibleExtensions[language.name] || []
PossibleExtensions(l) ==
    CASE l = "cpp" -> <<".cpp", ".cc", ".cxx">>
      [] l = "c" -> <<".c">>
      [] l = "rust" -> <<".rs">>
      [] l = "go" -> <<".go">>
      [] l = "java" -> <<".java">>
      [] l = "csharp" -> <<".cs">>
      [] l = "hs" -> <<".hs">>
      [] l = "cangjie" -> <<".cj">>
      [] OTHER -> <<>>

\* the loop over the extensions: the first candidate that exists, else basePath
RECURSIVE FirstExisting(_, _, _)
FirstExisting(basePath, exts, disk) ==
    IF exts = <<>>
    THEN basePath
    ELSE IF Append(basePath, Head(exts)) \in disk
         THEN Append(basePath, Head(exts))
         ELSE FirstExisting(basePath, Tail(exts), disk)

\* the source path runTestCase derives from binPath
DeriveSrc(l, binPath, disk) ==
    IF SkipCompile(l)
    THEN binPath
    ELSE IF ExtName(binPath) \in {".bin", "_bin"}
         THEN FirstExisting(StripBinSuffix(binPath), PossibleExtensions(l), disk)
         ELSE IF ExtName(binPath) = ".class"
              THEN Append(Front(binPath), ".java")
              ELSE binPath

\* a source path taken as derived, without looking for the file
ResolveSrcNoCheck(l, binPath, disk, editor) == Some(DeriveSrc(l, binPath, disk))

\* the final fallback: the active editor's saved file, None when there is none
ResolveSrc(l, binPath, disk, editor) ==
    IF DeriveSrc(l, binPath, disk) \in disk
    THEN Some(DeriveSrc(l, binPath, disk))
    ELSE editor

\* path.parse(binPath).name: the last component without its extension
ParsedName(path) == IF ExtName(path) = "" THEN path ELSE Front(path)

\* name.slice(0, -1), for a name whose last piece is a single character
SliceLast(name) == IF name = <<>> THEN name ELSE Front(name)

\* the class name of the java launch: args.push(binFileName)
JavaClassName(binPath) == SliceLast(ParsedName(binPath))

\* the JavaScript objects the handlers of runTestCase read and write
Heap ==
    [reg |-> runningBinaries, result |-> result, killer |-> killer,
     phase |-> phase, returned |-> returned, proc |-> proc, shown |-> shown]

\* clearTimeout(killer): cancels a timer that has not fired
ClearTimeout(k) == IF k = "pending" THEN "cleared" ELSE k

\* runningBinaries.pop()
PopRegistry(reg) ==
    IF reg = <<>> THEN reg ELSE SubSeq(reg, 1, Len(reg) - 1)

\* resolve(result): the first call settles the promise, later calls do nothing
Resolve(h, i) ==
    IF h.phase[i] = "done"
    THEN h
    ELSE [h EXCEPT !.phase[i] = "done", !.returned[i] = Some(h.result[i])]

\* an 'exit' listener that records the exit code and drops the signal
ExitHandlerNoSignal(h, i, code, signal) ==
    Resolve([h EXCEPT !.killer[i] = ClearTimeout(@),
                      !.result[i].code = code,
                      !.reg = PopRegistry(@)], i)

\* process.on('exit', (code, signal) => ...)
ExitHandler(h, i, code, signal) ==
    Resolve([h EXCEPT !.killer[i] = ClearTimeout(@),
                      !.result[i].code = code,
                      !.result[i].signal = signal,
                      !.reg = PopRegistry(@)], i)

\* the first 'error' listener: showErrorMessage
LaunchErrorListener(h, i) == [h EXCEPT !.shown[i] = Append(@, "error")]

\* the second 'error' listener, the one that resolves
ErrorHandler(h, i, name) ==
    Resolve([h EXCEPT !.killer[i] = ClearTimeout(@),
                      !.result[i].code = Some(1),
                      !.result[i].signal = Some(name),
                      !.reg = PopRegistry(@)], i)

\* an 'error' event runs both listeners in the order they were added
ErrorEvent(h, i, name) == ErrorHandler(LaunchErrorListener(h, i), i, name)

Live(p) == p.st \in {"running", "term"}

\* process.kill(): sends SIGTERM to a process that still runs; when the
\* signal cannot be delivered the ChildProcess emits 'error' synchronously
Kill(h, i, delivered) ==
    IF Live(h.proc[i])
    THEN IF delivered
         THEN [h EXCEPT !.proc[i].st = "term"]
         ELSE ErrorEvent(h, i, "Error")
    ELSE h

\* a killer callback over a Run object that all calls share
KillerCallbackShared(h, i, delivered) ==
    Kill([h EXCEPT !.result = [j \in Calls |-> [@[j] EXCEPT !.timeOut = TRUE]],
                   !.killer[i] = "fired"],
         i, delivered)

\* the killer timer's callback
KillerCallback(h, i, delivered) ==
    Kill([h EXCEPT !.result[i].timeOut = TRUE, !.killer[i] = "fired"],
         i, delivered)

\* runningBinaries.forEach((process) => process.kill()): forEach visits the
\* indices below the length it started with that still exist when reached
RECURSIVE KillEach(_, _, _, _)
KillEach(h, k, n, fails) ==
    IF k > n \/ k > Len(h.reg)
    THEN h
    ELSE KillEach(Kill(h, h.reg[k], h.reg[k] \notin fails), k + 1, n, fails)

SetHeap(h) ==
    /\ runningBinaries' = h.reg
    /\ result' = h.result
    /\ killer' = h.killer
    /\ phase' = h.phase
    /\ returned' = h.returned
    /\ proc' = h.proc
    /\ shown' = h.shown

\* the arguments and the surroundings of the call made last
NoCall ==
    [id |-> 0, lang |-> "none", bin |-> <<>>, disk |-> {}, editor |-> None]

\* calls are numbered in the order they are made
MayStart(i) ==
    /\ phase[i] = "idle"
    /\ \A j \in Calls : j < i => phase[j] # "idle"

\* an advisory that takes any setting that is present for an endpoint
AdvisoryNoTrim(url, l) ==
    IF url # None /\ mapLanguageToApi(l) = None THEN <<"warning">> ELSE <<>>

\* the advisory of runTestCase: endpoint configured, language not supported
Advisory(url, l) ==
    IF ~UrlBlank(url) /\ mapLanguageToApi(l) = None THEN <<"warning">> ELSE <<>>

\* runTestCase up to the spawn: the Run, the killer timer
BeforeSpawn(h, i, url, l) ==
    [h EXCEPT !.shown[i] = Advisory(url, l),
              !.result[i] = EmptyRun,
              !.killer[i] = "pending"]

\* runTestCase after the spawn: the registry entry, the pending promise
AfterSpawn(h, i, st) ==
    [h EXCEPT !.proc[i].st = st, !.phase[i] = "running", !.reg = Append(@, i)]

\* the platforms os.platform() is taken to name
Platforms == {"linux", "win32"}

\* the Language object the caller builds for a language name: its name and
\* the compiler command the settings declare for it
Descriptor(l) ==
    [name |-> l,
     compiler |-> IF l = "python" THEN "python3"
                  ELSE IF l = "ruby" THEN "ruby" ELSE "g++"]

NoLanguage == [name |-> "none", compiler |-> "none"]

\* HACK - On Windows, `python3` will be changed to `python`
PlatformHack(os, lang) ==
    IF os = "win32" /\ lang.compiler = "python3"
    THEN [lang EXCEPT !.compiler = "python"]
    ELSE lang

\* try { process.stdin.write(input) } catch (err) { log }
WriteInput(calls, raises) ==
    Append(calls, IF raises THEN "write throws" ELSE "write")

\* process.stdin.end()
EndInput(calls) == Append(calls, "end")

\* a promise executor that ends stdin inside the try block
StdinCallsEndInTry(raises) ==
    IF raises THEN WriteInput(<<>>, TRUE) ELSE EndInput(WriteInput(<<>>, FALSE))

\* what the promise executor does with the child's stdin
StdinCalls(raises) == EndInput(WriteInput(<<>>, raises))

\* runTestCase, local route, up to the return of the pending promise: spawn
\* gives a process in state st, stdin.write throws or not
Launch(i, l, st, raises) ==
    /\ lastCall' = [NoCall EXCEPT !.id = i, !.lang = l]
    /\ route' = [route EXCEPT ![i] = "local"]
    /\ language' = PlatformHack(platform, Descriptor(l))
    /\ stdin' = [stdin EXCEPT ![i] = StdinCalls(raises)]
    /\ SetHeap(AfterSpawn(BeforeSpawn(Heap, i, apiUrl, l), i, st))
    /\ UNCHANGED <<apiUrl, timerSaw, osVars, idleVars, remoteVars>>

\* runTestCase, local route, the child process starts
StartLocal(i, l) ==
    /\ MayStart(i)
    /\ ~shouldUseCloudApi(apiUrl, l)
    /\ Launch(i, l, "running", FALSE)

\* runTestCase, local route, the child process starts and stdin.write throws
\* (a payload that is no string or buffer)
StartLocalWriteThrows(i, l) ==
    /\ MayStart(i)
    /\ ~shouldUseCloudApi(apiUrl, l)
    /\ Launch(i, l, "running", TRUE)

\* runTestCase, local route, the launch fails (ENOENT, EACCES, ...): spawn
\* returns a ChildProcess and queues its 'error' on the next-tick queue
StartLocalFails(i, l) ==
    /\ MayStart(i)
    /\ ~shouldUseCloudApi(apiUrl, l)
    /\ Launch(i, l, "failed", FALSE)

\* runTestCase, local route, spawn itself throws (invalid argument, or a
\* system error it does not turn into an 'error' event): the promise of the
\* async function rejects, after setTimeout and before any listener is added
StartLocalThrows(i, l) ==
    /\ MayStart(i)
    /\ ~shouldUseCloudApi(apiUrl, l)
    /\ lastCall' = [NoCall EXCEPT !.id = i, !.lang = l]
    /\ route' = [route EXCEPT ![i] = "local"]
    /\ language' = PlatformHack(platform, Descriptor(l))
    /\ SetHeap([BeforeSpawn(Heap, i, apiUrl, l) EXCEPT !.phase[i] = "rejected"])
    /\ UNCHANGED <<apiUrl, timerSaw, osVars, stdin, idleVars, remoteVars>>

\* the 'error' of a failed launch waits on the next-tick queue
TickPending(i) == proc[i].st = "failed" /\ phase[i] = "running"

\* the event loop takes its next event when the next-tick queue is empty;
\* until then only the code that made the call goes on, and may make others
LoopIdle == \A i \in Calls : ~TickPending(i)

\* the next tick after a failed launch: 'error' is emitted
SpawnError(i) ==
    /\ TickPending(i)
    /\ \A j \in Calls : j < i => ~TickPending(j)
    /\ SetHeap(ErrorEvent(Heap, i, "Error"))
    /\ UNCHANGED <<apiUrl, route, lastCall, timerSaw, osVars, restVars, remoteVars>>

\* the killer timer fires
TimerFire(i, delivered) ==
    /\ LoopIdle
    /\ killer[i] = "pending"
    /\ delivered \/ Live(proc[i])
    /\ timerSaw' = [timerSaw EXCEPT
                        ![i] = IF Live(proc[i]) THEN "live" ELSE "dead"]
    /\ SetHeap(KillerCallback(Heap, i, delivered))
    /\ UNCHANGED <<apiUrl, route, lastCall, osVars, restVars, remoteVars>>

\* the 'exit' event of a child process that has ended
ExitEvent(i) ==
    /\ LoopIdle
    /\ proc[i].st = "dead"
    /\ ~proc[i].exitSeen
    /\ SetHeap(ExitHandler([Heap EXCEPT !.proc[i].exitSeen = TRUE], i,
                           proc[i].status[1], proc[i].status[2]))
    /\ UNCHANGED <<apiUrl, route, lastCall, timerSaw, osVars, restVars, remoteVars>>

\* process.stdout.on('data') and process.stderr.on('data')
DataHandler(r, s, data) == [r EXCEPT ![s] = Append(@, data)]

\* a 'data' event of one of the child's streams
DataEvent(i, s) ==
    /\ LoopIdle
    /\ pipe[i][s] # <<>>
    /\ result' = [result EXCEPT ![i] = DataHandler(@, s, Head(pipe[i][s]))]
    /\ pipe' = [pipe EXCEPT ![i][s] = Tail(@)]
    /\ UNCHANGED <<apiUrl, phase, route, lastCall, returned, killer, proc, wrote,
                   runningBinaries, timerSaw, shown, restVars, remoteVars>>

\* killRunning
KillRunning(fails) ==
    /\ runningBinaries # <<>>
    /\ fails \subseteq {i \in Range(runningBinaries) : Live(proc[i])}
    /\ SetHeap(KillEach(Heap, 1, Len(runningBinaries), fails))
    /\ UNCHANGED <<apiUrl, route, lastCall, timerSaw, osVars, restVars, remoteVars>>

\* ------------------------------------------------- the child processes

RECURSIVE SumOver(_, _)
SumOver(f, S) ==
    IF S = {} THEN 0
    ELSE LET x == CHOOSE y \in S : TRUE IN f[x] + SumOver(f, S \ {x})

TotalWritten ==
    SumOver([i \in Calls |-> wrote[i]["stdout"] + wrote[i]["stderr"]], Calls)

\* the child writes a chunk to one of its streams
ProcWrite(i, s) ==
    /\ Live(proc[i])
    /\ TotalWritten < MaxChunks
    /\ wrote' = [wrote EXCEPT ![i][s] = @ + 1]
    /\ pipe' = [pipe EXCEPT ![i][s] = Append(@, <<i, s, wrote[i][s] + 1>>)]
    /\ UNCHANGED <<apiUrl, phase, route, lastCall, result, returned, killer, proc,
                   runningBinaries, timerSaw, shown, restVars, remoteVars>>

\* the child ends by itself
ProcExit(i, st) ==
    /\ Live(proc[i])
    /\ proc' = [proc EXCEPT ![i].st = "dead", ![i].status = st]
    /\ UNCHANGED <<apiUrl, phase, route, lastCall, result, returned, killer,
                   runningBinaries, timerSaw, shown, osVars, restVars, remoteVars>>

\* SIGTERM reaches a child that does not handle it: the child is terminated
ProcTermDie(i) ==
    /\ proc[i].st = "term"
    /\ proc' = [proc EXCEPT ![i].st = "dead",
                            ![i].status = <<None, Some("SIGTERM")>>]
    /\ UNCHANGED <<apiUrl, phase, route, lastCall, result, returned, killer,
                   runningBinaries, timerSaw, shown, osVars, restVars, remoteVars>>

\* SIGTERM reaches a child that handles or ignores it: the child runs on
ProcTermIgnore(i) ==
    /\ proc[i].st = "term"
    /\ proc' = [proc EXCEPT ![i].st = "running"]
    /\ UNCHANGED <<apiUrl, phase, route, lastCall, result, returned, killer,
                   runningBinaries, timerSaw, shown, osVars, restVars, remoteVars>>

\* ------------------------------------------------- runTestCase, remote route

\* the Run returned when no source file can be determined
NoSourceRun ==
    RemoteRun(<<>>,
              <<"Could not determine source file path for cloud compilation">>, 1)

\* compileAndRunViaApi up to the fetch: the temp input file is named and
\* written when there is input, then the source file is read
ApiPrepare(fs, input, tname, writeOk, readOk) ==
    [path |-> IF HasInput(input) THEN Some(tname) ELSE None,
     files |-> IF HasInput(input) /\ writeOk THEN fs \cup {tname} ELSE fs,
     threw |-> (HasInput(input) /\ ~writeOk) \/ ~readOk,
     message |-> IF HasInput(input) /\ ~writeOk THEN <<"ENOSPC">> ELSE <<"EACCES">>]

\* the call settles: its promise resolves with the Run
Settle(i, run) ==
    /\ result' = [result EXCEPT ![i] = run]
    /\ returned' = [returned EXCEPT ![i] = Some(run)]
    /\ phase' = [phase EXCEPT ![i] = "done"]

\* runTestCase takes the remote route; the active editor is looked at only
\* when the derived source path is not on disk
RemoteStart(i, l, binPath, disk, editor) ==
    /\ MayStart(i)
    /\ shouldUseCloudApi(apiUrl, l)
    /\ lastCall' = [id |-> i, lang |-> l, bin |-> binPath, disk |-> disk,
                    editor |-> IF DeriveSrc(l, binPath, disk) \in disk
                               THEN None ELSE editor]
    /\ route' = [route EXCEPT ![i] = "remote"]

\* the checks compileAndRunViaApi makes before its try block
ApiPrecondition(url, l) ==
    IF UrlBlank(url) THEN "unconfigured"
    ELSE IF mapLanguageToApi(l) = None THEN "unsupported"
    ELSE "ok"

\* compileAndRunViaApi called by another caller than runTestCase with a
\* blank endpoint or an unsupported language: it throws outside its try
\* block, the promise of the async function rejects
ApiRejects(i, l) ==
    /\ MayStart(i)
    /\ ApiPrecondition(apiUrl, l) # "ok"
    /\ lastCall' = [NoCall EXCEPT !.id = i, !.lang = l]
    /\ route' = [route EXCEPT ![i] = "direct"]
    /\ phase' = [phase EXCEPT ![i] = "rejected"]
    /\ shown' = [shown EXCEPT
                    ![i] = IF ApiPrecondition(apiUrl, l) = "unsupported"
                           THEN <<"warning">> ELSE <<>>]
    /\ UNCHANGED <<apiUrl, result, returned, killer, proc, runningBinaries,
                   timerSaw, osVars, restVars, remoteVars>>

\* runTestCase, remote route, no source file can be determined
RemoteNoSource(i, l, binPath, disk, editor) ==
    /\ RemoteStart(i, l, binPath, disk, editor)
    /\ ResolveSrc(l, binPath, disk, editor) = None
    /\ Settle(i, NoSourceRun)
    /\ shown' = [shown EXCEPT ![i] = Advisory(apiUrl, l)]
    /\ UNCHANGED <<apiUrl, killer, proc, runningBinaries, timerSaw,
                   osVars, restVars, remoteVars>>

\* runTestCase, remote route, compileAndRunViaApi throws before the fetch:
\* the temp file cannot be written or the source file cannot be read
RemoteThrows(i, l, binPath, disk, editor, input, tname, writeOk, readOk) ==
    /\ RemoteStart(i, l, binPath, disk, editor)
    /\ ResolveSrc(l, binPath, disk, editor) # None
    /\ readOk => ResolveSrc(l, binPath, disk, editor)[1] \in disk
    /\ LET p == ApiPrepare(files, input, tname, writeOk, readOk) IN
        /\ p.threw
        /\ tempPath' = [tempPath EXCEPT ![i] = p.path]
        /\ files' = FinallyCleanup(p.files, p.path)
        /\ Settle(i, CatchRun(p.message, apiUrl[1]))
        /\ received' = [received EXCEPT
                            ![i] = Some([kind |-> "fs", message |-> p.message])]
    /\ shown' = [shown EXCEPT ![i] = Append(Advisory(apiUrl, l), "error")]
    /\ UNCHANGED <<apiUrl, killer, proc, runningBinaries, timerSaw,
                   osVars, restVars, pending, requests, notes>>

\* runTestCase, remote route, compileAndRunViaApi sends the request
RemoteFetch(i, l, binPath, disk, editor, input, tname) ==
    /\ RemoteStart(i, l, binPath, disk, editor)
    /\ ResolveSrc(l, binPath, disk, editor) # None
    /\ ResolveSrc(l, binPath, disk, editor)[1] \in disk
    /\ LET p == ApiPrepare(files, input, tname, TRUE, TRUE) IN
        /\ tempPath' = [tempPath EXCEPT ![i] = p.path]
        /\ files' = p.files
    /\ notes' = [notes EXCEPT ![i] = Append(@, "compiling-start")]
    /\ requests' = [requests EXCEPT ![i] = @ + 1]
    /\ phase' = [phase EXCEPT ![i] = "fetching"]
    /\ shown' = [shown EXCEPT ![i] = Advisory(apiUrl, l)]
    /\ UNCHANGED <<apiUrl, result, returned, killer, proc, runningBinaries,
                   timerSaw, osVars, restVars, pending, received>>

\* fetch rejects: finally 'compiling-stop', catch, finally cleanup
FetchRejects(i, o) ==
    /\ LoopIdle
    /\ phase[i] = "fetching"
    /\ o.kind = "reject"
    /\ notes' = [notes EXCEPT ![i] = AfterFetch(@, TRUE)]
    /\ shown' = [shown EXCEPT ![i] = Append(@, "error")]
    /\ files' = FinallyCleanup(files, tempPath[i])
    /\ Settle(i, CatchRun(o.message, apiUrl[1]))
    /\ received' = [received EXCEPT ![i] = Some(o)]
    /\ UNCHANGED <<apiUrl, route, lastCall, killer, proc, runningBinaries,
                   timerSaw, osVars, restVars, tempPath, pending, requests>>

\* fetch resolves with a response: finally 'compiling-stop', then the body
\* is awaited
FetchResponds(i, o) ==
    /\ LoopIdle
    /\ phase[i] = "fetching"
    /\ o.kind = "response"
    /\ notes' = [notes EXCEPT ![i] = AfterFetch(@, FALSE)]
    /\ pending' = [pending EXCEPT ![i] = Some(o.status)]
    /\ phase' = [phase EXCEPT ![i] = "reading"]
    /\ UNCHANGED <<apiUrl, route, lastCall, result, returned, killer, proc,
                   runningBinaries, timerSaw, shown, osVars, restVars, files,
                   tempPath, requests, received>>

\* response.text() of a response that is not ok settles
TextSettles(i, b) ==
    /\ LoopIdle
    /\ phase[i] = "reading"
    /\ ~ResponseOk(pending[i][1])
    /\ files' = FinallyCleanup(files, tempPath[i])
    /\ Settle(i, StatusRun(pending[i][1], b))
    /\ received' = [received EXCEPT ![i] = Some(b)]
    /\ UNCHANGED <<apiUrl, route, lastCall, killer, proc, runningBinaries,
                   timerSaw, shown, osVars, restVars, tempPath, pending, requests, notes>>

\* response.json() of an ok response settles; a body that does not parse
\* takes the catch block
JsonSettles(i, b) ==
    /\ LoopIdle
    /\ phase[i] = "reading"
    /\ ResponseOk(pending[i][1])
    /\ files' = FinallyCleanup(files, tempPath[i])
    /\ Settle(i, IF b.kind = "json" THEN JsonRun(b)
                 ELSE CatchRun(<<"Unexpected token">>, apiUrl[1]))
    /\ received' = [received EXCEPT ![i] = Some(b)]
    /\ shown' = [shown EXCEPT
                    ![i] = IF b.kind = "json" THEN @ ELSE Append(@, "error")]
    /\ UNCHANGED <<apiUrl, route, lastCall, killer, proc, runningBinaries,
                   timerSaw, osVars, restVars, tempPath, pending, requests, notes>>

\* --------------------------------------------------------------- quickRun.ts

\* the directories the files of the active editor are in
Dirs == {"d1", "d2"}

\* directories are interchangeable: the first call is made on a file of "d1"
FreshDirs ==
    {d \in Dirs : d = "d1" \/ \E j \in Calls : qdir[j] = "d1"}

\* quickRun calls are numbered in the order they are made
MayQuick(i) ==
    /\ qphase[i] = "none"
    /\ phase[i] = "idle"
    /\ \A j \in Calls : j < i => qphase[j] # "none"

\* quickRun returns early: no endpoint configured (an error message), or a
\* language the endpoint does not support (a warning)
QuickRefuses(i, l) ==
    /\ MayQuick(i)
    /\ ~(~UrlBlank(apiUrl) /\ shouldUseCloudApi(apiUrl, l))
    /\ qphase' = [qphase EXCEPT ![i] = "refused"]
    /\ route' = [route EXCEPT ![i] = "quick"]
    /\ shown' = [shown EXCEPT
                    ![i] = IF UrlBlank(apiUrl) THEN <<"error">> ELSE <<"warning">>]
    /\ UNCHANGED <<apiUrl, phase, lastCall, result, returned, killer, proc,
                   runningBinaries, timerSaw, osVars, remoteVars, stdin,
                   language, platform, srcPath, className, qdir, outFile,
                   cleanups>>

\* quickRun up to its await: 'Running code...', then compileAndRunViaApi up
\* to the fetch
QuickFetch(i, l, dir, input, tname) ==
    /\ MayQuick(i)
    /\ ~UrlBlank(apiUrl)
    /\ shouldUseCloudApi(apiUrl, l)
    /\ qphase' = [qphase EXCEPT ![i] = "awaiting"]
    /\ qdir' = [qdir EXCEPT ![i] = dir]
    /\ route' = [route EXCEPT ![i] = "quick"]
    /\ shown' = [shown EXCEPT ![i] = <<"info">>]
    /\ LET p == ApiPrepare(files, input, tname, TRUE, TRUE) IN
        /\ tempPath' = [tempPath EXCEPT ![i] = p.path]
        /\ files' = p.files
    /\ notes' = [notes EXCEPT ![i] = Append(@, "compiling-start")]
    /\ requests' = [requests EXCEPT ![i] = @ + 1]
    /\ phase' = [phase EXCEPT ![i] = "fetching"]
    /\ UNCHANGED <<apiUrl, lastCall, result, returned, killer, proc,
                   runningBinaries, timerSaw, osVars, pending, received, stdin,
                   language, platform, srcPath, className, outFile, cleanups>>

\* quickRun after its await: the result is written to the temp output file,
\* the terminal is told to print it, the cleanup timer is set; when the file
\* cannot be written the result is echoed instead
QuickShow(i, writeOk) ==
    /\ qphase[i] = "awaiting"
    /\ phase[i] = "done"
    /\ qphase' = [qphase EXCEPT ![i] = IF writeOk THEN "shown" ELSE "echoed"]
    /\ outFile' = IF writeOk THEN [outFile EXCEPT ![qdir[i]] = Some(i)]
                  ELSE outFile
    /\ cleanups' = IF writeOk THEN Append(cleanups, i) ELSE cleanups
    /\ shown' = [shown EXCEPT
                    ![i] = Append(@, IF returned[i][1].code = Some(0)
                                     THEN "info" ELSE "error")]
    /\ UNCHANGED <<apiUrl, phase, route, lastCall, result, returned, killer,
                   proc, runningBinaries, timerSaw, osVars, remoteVars, stdin,
                   language, platform, srcPath, className, qdir>>

\* the cleanup timer of quickRun fires, 5000 ms after it was set: timers of
\* one delay fire in the order they were set
QuickCleanup(i) ==
    /\ cleanups # <<>>
    /\ Head(cleanups) = i
    /\ cleanups' = Tail(cleanups)
    /\ qphase' = [qphase EXCEPT ![i] = "cleaned"]
    /\ outFile' = [outFile EXCEPT ![qdir[i]] = None]
    /\ UNCHANGED <<runVars, srcPath, className, qdir>>

\* ------------------------------------------------------------ specification

\* the state before any call, for the given settings and platforms
InitOn(urls, platforms, calls) ==
    /\ apiUrl \in urls
    /\ platform \in platforms
    /\ lastCall \in calls
    /\ srcPath = None
    /\ className = None
    /\ phase = [i \in Calls |-> "idle"]
    /\ route = [i \in Calls |-> "none"]
    /\ result = [i \in Calls |-> EmptyRun]
    /\ returned = [i \in Calls |-> None]
    /\ killer = [i \in Calls |-> "unset"]
    /\ proc = [i \in Calls |-> NoProc]
    /\ pipe = [i \in Calls |-> [s \in Streams |-> <<>>]]
    /\ wrote = [i \in Calls |-> [s \in Streams |-> 0]]
    /\ runningBinaries = <<>>
    /\ timerSaw = [i \in Calls |-> "none"]
    /\ files = {}
    /\ tempPath = [i \in Calls |-> None]
    /\ pending = [i \in Calls |-> None]
    /\ requests = [i \in Calls |-> 0]
    /\ received = [i \in Calls |-> None]
    /\ notes = [i \in Calls |-> <<>>]
    /\ shown = [i \in Calls |-> <<>>]
    /\ stdin = [i \in Calls |-> <<>>]
    /\ language = NoLanguage
    /\ qphase = [i \in Calls |-> "none"]
    /\ qdir = [i \in Calls |-> "none"]
    /\ outFile = [d \in Dirs |-> None]
    /\ cleanups = <<>>

Init == InitOn(UrlSettings, {"linux"}, {NoCall})

\* the dispatcher, the local route and the child processes
NextLocal ==
    \/ \E i \in Calls, l \in LangInputs : StartLocal(i, l)
    \/ \E i \in Calls, l \in LangInputs : StartLocalFails(i, l)
    \/ \E i \in Calls, l \in LangInputs : StartLocalThrows(i, l)
    \/ \E i \in Calls : SpawnError(i)
    \/ \E i \in Calls, d \in BOOLEAN : TimerFire(i, d)
    \/ \E i \in Calls : ExitEvent(i)
    \/ \E fails \in SUBSET {i \in Range(runningBinaries) : Live(proc[i])} :
          KillRunning(fails)
    \/ \E i \in Calls, st \in OwnExits : ProcExit(i, st)
    \/ \E i \in Calls : ProcTermDie(i)
    \/ \E i \in Calls : ProcTermIgnore(i)

\* the output streams of the child processes
NextStreams ==
    \/ \E i \in Calls, s \in Streams : ProcWrite(i, s)
    \/ \E i \in Calls, s \in Streams : DataEvent(i, s)

\* the names a new temp input file may get: the names are interchangeable,
\* so the first file of a run is given the name "t1"; a later one gets the
\* same name again or another
FreshNames ==
    {n \in TempNames :
        n = "t1" \/ \E j \in Calls : tempPath[j] = Some("t1")}

\* the remote route
NextRemote ==
    \/ \E i \in Calls, l \in LangInputs : ApiRejects(i, l)
    \/ \E i \in {j \in Calls : MayStart(j)},
          l \in {k \in LangInputs : shouldUseCloudApi(apiUrl, k)},
          b \in BinInputs, d \in DiskInputs, e \in EditorInputs :
          RemoteNoSource(i, l, b, d, e)
    \/ \E i \in {j \in Calls : MayStart(j)},
          l \in {k \in LangInputs : shouldUseCloudApi(apiUrl, k)},
          b \in BinInputs, d \in DiskInputs, e \in EditorInputs,
          in \in InputPayloads, t \in FreshNames, w \in BOOLEAN, r \in BOOLEAN :
          RemoteThrows(i, l, b, d, e, in, t, w, r)
    \/ \E i \in {j \in Calls : MayStart(j)},
          l \in {k \in LangInputs : shouldUseCloudApi(apiUrl, k)},
          b \in BinInputs, d \in DiskInputs, e \in EditorInputs,
          in \in InputPayloads, t \in FreshNames :
          RemoteFetch(i, l, b, d, e, in, t)
    \/ \E i \in Calls, o \in FetchOutcomes : FetchRejects(i, o)
    \/ \E i \in Calls, o \in FetchOutcomes : FetchResponds(i, o)
    \/ \E i \in Calls, b \in TextOutcomes : TextSettles(i, b)
    \/ \E i \in Calls, b \in JsonOutcomes : JsonSettles(i, b)

Next == NextLocal \/ NextStreams \/ NextRemote

Spec == Init /\ [][Next]_vars

\* the same program with child processes that write no output
NextCore == NextLocal \/ NextRemote

CoreSpec == Init /\ [][NextCore]_vars

\* the remote route alone
RemoteSpec == Init /\ [][NextRemote]_vars

\* the local route with payloads stdin takes and payloads it refuses
NextStdin ==
    \E i \in Calls, l \in LangInputs : StartLocalWriteThrows(i, l)

StdinSpec == Init /\ [][NextLocal \/ NextStdin]_vars

\* the local route on every platform, python among the languages
PythonInputs == {"python"}

NextPython ==
    \E i \in Calls, l \in PythonInputs : StartLocal(i, l)

PlatformInit == InitOn({None}, Platforms, {NoCall})

PlatformSpec == PlatformInit /\ [][NextLocal \/ NextPython]_vars

\* the arguments the path computations are applied to: languages of the
\* remote route, executable references "sol.bin", "sol_bin", "sol._bin",
\* "M*.class", "sol.py", and what exists on disk
DeriveLangs == {"cpp", "java", "python"}

DeriveBins ==
    {<<"sol", ".bin">>, <<"sol", "_bin">>, <<"sol", "._bin">>,
     <<"M", "*", ".class">>, <<"sol", ".py">>}

DeriveFiles ==
    {<<"sol", ".cpp">>, <<"sol", ".cc">>, <<"sol", "_bin">>,
     <<"M", ".java">>, <<"M", "*", ".java">>}

DeriveCalls ==
    {[NoCall EXCEPT !.lang = l, !.bin = b, !.disk = d] :
        l \in DeriveLangs, b \in DeriveBins, d \in SUBSET DeriveFiles}

\* runTestCase, remote route: srcPath is derived from language and binPath
DeriveSource ==
    /\ srcPath = None
    /\ srcPath' = Some(DeriveSrc(lastCall.lang, lastCall.bin, lastCall.disk))
    /\ UNCHANGED <<runVars, className, quickVars>>

\* runTestCase, local route, case 'java': the class name is taken from binPath
JavaLaunch ==
    /\ className = None
    /\ lastCall.lang = "java"
    /\ className' = Some(JavaClassName(lastCall.bin))
    /\ UNCHANGED <<runVars, srcPath, quickVars>>

NextDerive == DeriveSource \/ JavaLaunch

DeriveInit == InitOn({Some(<<"u">>)}, {"linux"}, DeriveCalls)

DeriveSpec == DeriveInit /\ [][NextDerive]_vars

\* quickRun and the requests it sends
NextQuick ==
    \/ \E i \in Calls, l \in LangInputs : QuickRefuses(i, l)
    \/ \E i \in {j \in Calls : MayQuick(j)},
          l \in {k \in LangInputs : shouldUseCloudApi(apiUrl, k)},
          d \in FreshDirs, in \in InputPayloads, t \in FreshNames :
          QuickFetch(i, l, d, in, t)
    \/ \E i \in Calls, w \in BOOLEAN : QuickShow(i, w)
    \/ \E i \in Calls : QuickCleanup(i)
    \/ \E i \in Calls, o \in FetchOutcomes : FetchRejects(i, o)
    \/ \E i \in Calls, o \in FetchOutcomes : FetchResponds(i, o)
    \/ \E i \in Calls, b \in TextOutcomes : TextSettles(i, b)
    \/ \E i \in Calls, b \in JsonOutcomes : JsonSettles(i, b)

QuickSpec == Init /\ [][NextQuick]_vars

\* the event loop runs a callback that is due: an expired timer, the 'exit'
\* event of a child that has ended; the operating system delivers a signal
\* that was sent.  A child is not bound to end by itself, a request is not
\* bound to be answered.
Fairness ==
    \A i \in Calls :
        /\ WF_vars(\E d \in BOOLEAN : TimerFire(i, d))
        /\ WF_vars(ExitEvent(i))
        /\ WF_vars(SpawnError(i))
        /\ WF_vars(ProcTermDie(i) \/ ProcTermIgnore(i))

FairSpec == Init /\ [][NextCore]_vars /\ Fairness

\* ------------------------------------------------------------------ claims

Resolved(i) == returned[i] # None

\* the chunks the child of call i has written to stream s, in order
Written(i, s) == [k \in 1..wrote[i][s] |-> <<i, s, k>>]

\* C1: a local execution whose child still runs when the killer timer fires
\* eventually resolves with timeOut = true, whatever the child does with the
\* termination request.
C1_TimeoutResolves ==
    \A i \in Calls :
        (killer[i] = "fired" /\ timerSaw[i] = "live")
            ~> (Resolved(i) /\ returned[i][1].timeOut)

\* C2: whenever a local execution has resolved with timeOut = true, its child
\* process has terminated.
C2_TimeoutMeansTerminated ==
    \A i \in Calls :
        (Resolved(i) /\ returned[i][1].timeOut) => ~Live(proc[i])

\* a pending call whose child has a SIGTERM of killRunning on its way: the
\* timer, the only other sender, has not fired
CancelReached(i) ==
    /\ phase[i] = "running"
    /\ proc[i].st = "term"
    /\ killer[i] = "pending"

\* C3: after killRunning every pending call it reached eventually resolves,
\* and once no call is pending the registry is empty.
C3_CancelResolvesAll ==
    /\ \A i \in Calls : CancelReached(i) ~> Resolved(i)
    /\ []((\A i \in Calls : phase[i] # "running") => runningBinaries = <<>>)

\* C4: the registry holds exactly the child processes of the local calls
\* that are still pending.
C4_RegistryExact ==
    Range(runningBinaries) = {i \in Calls : phase[i] = "running"}

\* the endpoint setting holds a character that is not white space
EndpointSet(url) ==
    url # None /\ \E k \in DOMAIN url[1] : url[1][k] \notin WhiteSpace

\* the languages the remote endpoint accepts a tag for
RemoteLanguages == {"c", "cpp", "python", "java", "js", "rust", "go", "csharp"}

\* C5: a call takes the remote route exactly when the endpoint is set and the
\* language has a remote tag; a remote call has no child process, no timer and
\* no registry entry; a local call sends no request and no notification.
C5_Routing ==
    \A i \in Calls :
        /\ lastCall.id = i =>
              (route[i] = "remote" <=>
                  (EndpointSet(apiUrl) /\ lastCall.lang \in RemoteLanguages))
        /\ route[i] = "remote" =>
              /\ proc[i] = NoProc
              /\ killer[i] = "unset"
              /\ i \notin Range(runningBinaries)
        /\ route[i] = "local" => (requests[i] = 0 /\ notes[i] = <<>>)

\* both routes were taken in one run, the remote call after a request
C5_Witness ==
    \E i, j \in Calls :
        /\ route[i] = "remote" /\ requests[i] = 1 /\ phase[i] = "done"
        /\ route[j] = "local" /\ proc[j].st # "none"

C7_NotesPaired ==
    \A i \in Calls :
        /\ requests[i] = 0 => notes[i] = <<>>
        /\ phase[i] = "fetching" => notes[i] = <<"compiling-start">>
        /\ (requests[i] > 0 /\ phase[i] # "fetching") =>
              notes[i] = <<"compiling-start", "compiling-stop">>

\* a request was rejected and its call has resolved with both notifications
C7_Witness ==
    \E i \in Calls :
        /\ phase[i] = "done"
        /\ "error" \in Range(shown[i])
        /\ notes[i] = <<"compiling-start", "compiling-stop">>

\* C8: in the step in which a local execution whose child has terminated
\* resolves, stdout and stderr hold every chunk the child wrote, in order.
C8_OutputComplete ==
    [][\A i \in Calls :
          (~Resolved(i) /\ returned'[i] # None /\ proc'[i].st = "dead")
              => \A s \in Streams : returned'[i][1][s] = Written(i, s)]_vars

\* how many of: exit code present, signal present, timeOut
Marks(r) ==
    (IF r.code # None THEN 1 ELSE 0) + (IF r.signal # None THEN 1 ELSE 0)
        + (IF r.timeOut THEN 1 ELSE 0)

\* C9 as stated: every returned Run has exactly one of exit code, signal and
\* timeOut, and lacks both code and signal only when timeOut is true.
C9_ExactlyOne ==
    \A i \in Calls :
        Resolved(i) =>
            /\ Marks(returned[i][1]) = 1
            /\ (returned[i][1].code = None /\ returned[i][1].signal = None)
                  => returned[i][1].timeOut

\* C9 as amended: every returned Run has at least one of exit code, signal
\* and timeOut, and lacks both code and signal only when timeOut is true.
C9_AtLeastOne ==
    \A i \in Calls :
        Resolved(i) =>
            /\ Marks(returned[i][1]) >= 1
            /\ (returned[i][1].code = None /\ returned[i][1].signal = None)
                  => returned[i][1].timeOut

\* a returned Run with more than one of the three: a timeout that ended in
\* SIGTERM, and a remote Run with the code alone
C9_Witness ==
    \E i, j \in Calls :
        /\ Resolved(i) /\ returned[i][1].timeOut
        /\ returned[i][1].signal = Some("SIGTERM")
        /\ Resolved(j) /\ route[j] = "remote" /\ Marks(returned[j][1]) = 1

\* C10: a local execution whose child ended before the killer timer fired
\* resolves with timeOut = false and with the timer cancelled.
C10_ExitBeforeTimer ==
    \A i \in Calls :
        (Resolved(i) /\ proc[i].st = "dead" /\ timerSaw[i] # "live") =>
            (~returned[i][1].timeOut /\ killer[i] = "cleared")

\* C11: once the 'error' of a failed launch has been emitted the call has
\* resolved with code 1 and signal = the error's name, its timer is cancelled
\* and its registry entry is removed.
C11_SpawnFailure ==
    \A i \in Calls :
        (proc[i].st = "failed" /\ LoopIdle) =>
            /\ Resolved(i)
            /\ returned[i][1].code = Some(1)
            /\ returned[i][1].signal = Some("Error")
            /\ killer[i] = "cleared"
            /\ i \notin Range(runningBinaries)

\* C12: compileAndRunViaApi called while the endpoint is not set returns a
\* failure Run and sends no request.
C12_UnconfiguredReturns ==
    \A i \in Calls :
        (route[i] = "direct" /\ ~EndpointSet(apiUrl)) =>
            /\ phase[i] # "rejected"
            /\ Resolved(i) /\ returned[i][1].code # Some(0)
            /\ requests[i] = 0

\* every piece of part occurs in message
Mentions(message, part) == Range(part) \subseteq Range(message)

\* C13: a remote call answered with a status outside 200..299 resolves with
\* code = the status, stderr naming the status and holding the body text,
\* stdout empty, no signal and timeOut = false.
C13_StatusResult ==
    \A i \in Calls :
        (phase[i] \in {"done", "rejected"} /\ pending[i] # None
            /\ pending[i][1] \notin 200..299) =>
            /\ Resolved(i)
            /\ returned[i][1].code = Some(pending[i][1])
            /\ returned[i][1].stdout = <<>>
            /\ returned[i][1].signal = None
            /\ ~returned[i][1].timeOut
            /\ ToString(pending[i][1]) \in Range(returned[i][1].stderr)
            /\ received[i][1].kind = "text" =>
                  Mentions(returned[i][1].stderr, received[i][1].text)

\* a call answered with status 500 and a body text has resolved
C13_Witness ==
    \E i \in Calls :
        /\ phase[i] = "done" /\ pending[i] = Some(500)
        /\ received[i] # None /\ received[i][1].kind = "text"

\* C14: a remote call answered with a 2xx status and a parsed body resolves
\* with stdout = output, no signal, timeOut = false, and with code 0 and empty
\* stderr when success is true, code 1 and stderr = the error string, or a
\* non-empty fallback when there is none, when success is false.
C14_BodyResult ==
    \A i \in Calls :
        (phase[i] \in {"done", "rejected"} /\ pending[i] # None
            /\ pending[i][1] \in 200..299 /\ received[i][1].kind = "json") =>
            LET b == received[i][1]
                r == returned[i][1]
            IN  /\ Resolved(i)
                /\ r.stdout = (IF b.output = None THEN <<>> ELSE b.output[1])
                /\ r.signal = None
                /\ ~r.timeOut
                /\ b.success => (r.code = Some(0) /\ r.stderr = <<>>)
                /\ ~b.success =>
                      /\ r.code = Some(1)
                      /\ b.error # None => r.stderr = b.error[1]
                      /\ b.error = None => r.stderr # <<>>

\* one call got a success body with output, another a failure body
\* without an error string
C14_Witness ==
    \E i, j \in Calls :
        /\ phase[i] = "done" /\ received[i] # None
        /\ received[i][1].kind = "json" /\ received[i][1].success
        /\ phase[j] = "done" /\ received[j] # None
        /\ received[j][1].kind = "json" /\ ~received[j][1].success
        /\ received[j][1].error = None

\* C15: a remote call whose request was rejected resolves with code 1, no
\* signal and timeOut = false; when the connection was refused stderr names
\* the configured endpoint.
C15_NetworkFailure ==
    \A i \in Calls :
        (phase[i] \in {"done", "rejected"} /\ received[i] # None
            /\ received[i][1].kind = "reject") =>
            /\ Resolved(i)
            /\ returned[i][1].code = Some(1)
            /\ returned[i][1].signal = None
            /\ ~returned[i][1].timeOut
            /\ returned[i][1].stderr # <<>>
            /\ received[i][1].cause = "refused" =>
                  Mentions(returned[i][1].stderr, apiUrl[1])

\* the advisory warnings call i has shown
Warnings(i) == Cardinality({k \in DOMAIN shown[i] : shown[i][k] = "warning"})

\* C16: a runTestCase call made with the endpoint set and a language without
\* remote tag takes the local route and shows exactly one advisory; any other
\* runTestCase call shows none.
C16_Advisory ==
    \A i \in Calls :
        (lastCall.id = i /\ route[i] \in {"local", "remote"}) =>
            IF EndpointSet(apiUrl) /\ lastCall.lang \notin RemoteLanguages
            THEN route[i] = "local" /\ Warnings(i) = 1
            ELSE Warnings(i) = 0

\* a call that showed the advisory has resolved on the local route, and a
\* call with a mapped language was made after it
C16_Witness ==
    \E i, j \in Calls :
        /\ route[i] = "local" /\ Warnings(i) = 1 /\ Resolved(i)
        /\ lastCall.id = j /\ lastCall.lang \in RemoteLanguages /\ j # i

\* C17: a remote-route call whose derived source path is not on disk, made
\* while no saved file is open in the editor, has returned at once with
\* code 1, a stderr that tells the source file was not found, no signal,
\* timeOut = false, and without a request or a 'compiling-start'.
C17_NoSource ==
    \A i \in Calls :
        (lastCall.id = i /\ route[i] = "remote"
            /\ DeriveSrc(lastCall.lang, lastCall.bin, lastCall.disk)
                  \notin lastCall.disk
            /\ lastCall.editor = None) =>
            /\ Resolved(i)
            /\ returned[i][1].code = Some(1)
            /\ returned[i][1].stderr =
                  <<"Could not determine source file path for cloud compilation">>
            /\ returned[i][1].signal = None
            /\ ~returned[i][1].timeOut
            /\ requests[i] = 0
            /\ notes[i] = <<>>

\* such a call was made and has returned
C17_Witness ==
    \E i \in Calls :
        /\ lastCall.id = i /\ route[i] = "remote" /\ phase[i] = "done"
        /\ lastCall.disk = {} /\ lastCall.editor = None

\* a step of call i itself: the call is made, its timer fires, the 'exit',
\* 'error' or 'data' event of its process is handled, its remote call goes on
OwnStep(i) ==
    \/ phase[i] = "idle" /\ phase'[i] # "idle"
    \/ killer[i] = "pending" /\ killer'[i] = "fired"
    \/ ~proc[i].exitSeen /\ proc'[i].exitSeen
    \/ Len(shown'[i]) > Len(shown[i])
    \/ pipe'[i] # pipe[i]
    \/ route[i] = "remote"

\* the Run of a local call i holds what its own process and timer gave
OwnContent(i) ==
    route[i] = "local" =>
        /\ \A s \in Streams : \A k \in DOMAIN result[i][s] :
              result[i][s][k][1] = i /\ result[i][s][k][2] = s
        /\ result[i].timeOut => killer[i] = "fired"
        /\ (result[i].code # None \/ result[i].signal # None) =>
              \/ proc[i].exitSeen
                    /\ <<result[i].code, result[i].signal>> = proc[i].status
              \/ "error" \in Range(shown[i])
                    /\ <<result[i].code, result[i].signal>>
                          = <<Some(1), Some("Error")>>

\* C18: the Run of a call changes only in steps of that call, and holds only
\* chunks, exit status and timeout of that call's own process.
C18_Isolation ==
    /\ [](\A i \in Calls : OwnContent(i))
    /\ [][\A i \in Calls : result'[i] # result[i] => OwnStep(i)]_vars

\* two local calls are pending together, one has output in its Run, the
\* timer of the other has fired
C18_Witness ==
    \E i, j \in Calls :
        /\ i # j /\ phase[i] = "running" /\ phase[j] = "running"
        /\ result[i].stdout # <<>> /\ result[j].timeOut

\* C19: once a local execution has settled - resolved by 'exit' or 'error',
\* or rejected because spawn threw - its timeout timer is not pending.
C19_TimerCancelled ==
    \A i \in Calls :
        (route[i] = "local" /\ phase[i] \in {"done", "rejected"}) =>
            killer[i] # "pending"

\* a step of killRunning that reached a running child: a termination request
\* went out to it, or failed and made it emit 'error', and no timer fired
KillRunningStep ==
    /\ timerSaw' = timerSaw
    /\ \E i \in Calls :
          /\ Live(proc[i])
          /\ \/ proc[i].st = "running" /\ proc'[i].st = "term"
             \/ Len(shown'[i]) > Len(shown[i])

\* C20: a step of killRunning leaves the registry as it was, resolves no
\* call and changes no Run.
C20_KillRunningFrame ==
    [][KillRunningStep =>
          /\ runningBinaries' = runningBinaries
          /\ phase' = phase
          /\ returned' = returned
          /\ result' = result]_vars

\* C21: for every local execution whose process object exists, the payload
\* is handed to stdin.write exactly once and stdin is then ended, in that
\* order, and both are done in every state in which the call is pending or
\* resolved (so before it can resolve); stdin is ended when the write throws
C21_StdinWrittenThenClosed ==
    \A i \in Calls :
        (route[i] = "local" /\ phase[i] \in {"running", "done"}) =>
            /\ Len(stdin[i]) = 2
            /\ stdin[i][1] \in {"write", "write throws"}
            /\ stdin[i][2] = "end"

C21_Witness ==
    \E i \in Calls :
        /\ route[i] = "local"
        /\ Resolved(i)
        /\ stdin[i] = <<"write throws", "end">>

\* C22: a local run leaves the Language object it was given as it was: its
\* compiler command after the call is the one the caller declared, on
\* every platform
C22_DescriptorKept ==
    language # NoLanguage => language = Descriptor(language.name)

\* the source extensions the language knows, in the order they are probed
Candidates(l, base) ==
    [k \in 1..Len(PossibleExtensions(l)) |-> Append(base, PossibleExtensions(l)[k])]

\* C23: the derived source path is the executable reference itself for a
\* skip-compile language; otherwise, for a reference that ends in a marker
\* suffix ('.bin' or '_bin') and has a candidate on disk, it is the reference
\* without the suffix plus the first known extension whose file exists
C23_SourceDerivation ==
    srcPath # None =>
        LET l == lastCall.lang
            b == lastCall.bin
            c == Candidates(l, Front(b))
        IN  /\ SkipCompile(l) => srcPath[1] = b
            /\ (/\ ~SkipCompile(l)
                /\ b[Len(b)] \in {".bin", "_bin"}
                /\ \E k \in DOMAIN c : c[k] \in lastCall.disk)
               => \E k \in DOMAIN c :
                     /\ c[k] \in lastCall.disk
                     /\ \A j \in 1..(k - 1) : c[j] \notin lastCall.disk
                     /\ srcPath[1] = c[k]

\* C28: for a '.class' reference of a compiled language the stem of the
\* derived source file (the file name without '.java') is the class name of
\* the local java launch
C28_ClassStem ==
    (/\ srcPath # None
     /\ className # None
     /\ ExtName(lastCall.bin) = ".class")
    => ParsedName(srcPath[1]) = className[1]

\* C24: a settled remote call has shown an error message exactly when its
\* request was rejected by the network layer: none for a response, whatever
\* its status and body, none for a file that cannot be read or written, none
\* for a body that cannot be parsed
C24_ErrorShownIffNetwork ==
    \A i \in Calls :
        (Resolved(i) /\ received[i] # None) =>
            ("error" \in Range(shown[i]) <=> received[i][1].kind = "reject")

\* a remote call whose request is in flight or whose response is being read
InFlight(i) == phase[i] \in {"fetching", "reading"}

\* C25: two remote calls that are in flight at the same time have different
\* temp input paths, so that neither has written over the other's file
C25_DistinctTempPaths ==
    \A i, j \in Calls :
        (i # j /\ InFlight(i) /\ InFlight(j) /\ tempPath[i] # None) =>
            tempPath[i] # tempPath[j]

\* C26: the 'exit' event of a process whose call has already resolved
\* changes no field of the Run the call returned (the object the handlers
\* write to) and leaves the registry as it was
C26_SettledOnce ==
    [][\A i \in Calls :
          (Resolved(i) /\ ~proc[i].exitSeen /\ proc'[i].exitSeen)
              => (result'[i] = result[i] /\ runningBinaries' = runningBinaries)]_vars

\* how many notifications of one kind call i has emitted
CountNotes(i, n) == Cardinality({k \in DOMAIN notes[i] : notes[i][k] = n})

\* C27: over all remote calls there are never more 'compiling-stop' than
\* 'compiling-start' notifications, and a 'compiling-stop' is never the
\* notification emitted last while the request of another call is in flight
C27_BusyWhileInFlight ==
    [][/\ SumOver([i \in Calls |-> CountNotes(i, "compiling-stop")], Calls)
             <= SumOver([i \in Calls |-> CountNotes(i, "compiling-start")], Calls)
       /\ \A i \in Calls :
             (notes'[i] # notes[i]
                 /\ notes'[i][Len(notes'[i])] = "compiling-stop")
             => \A j \in Calls : phase'[j] # "fetching"]_vars

\* C29: a quickRun call writes its temp output file only where no output
\* file of another call is waiting for its cleanup, and the cleanup of a
\* call removes no file but the one that call wrote (a file written by a
\* later call, whose own cleanup timer is set later and so is not yet due)
C29_OwnOutputFile ==
    [][\A i \in Calls :
          /\ (qphase[i] = "awaiting" /\ qphase'[i] = "shown")
                => outFile[qdir[i]] = None
          /\ (qphase[i] = "shown" /\ qphase'[i] = "cleaned")
                => outFile[qdir[i]] \in {None, Some(i)}]_vars

====
